---- MODULE Spec2Model ----
(***************************************************************************)
(* A model of package nanoid (src/nanoid.go): the Reader that turns random *)
(* bytes into Nano IDs, its construction through options, the package      *)
(* level entry points and the pool of buffer byte slices.                  *)
(*                                                                         *)
(* Strings are sequences of byte codes (Go strings and []byte are bytes);  *)
(* Go's 0-based index i is position i + 1 of the sequence.                 *)
(***************************************************************************)
EXTENDS Integers, Sequences, FiniteSets, TLC

VARIABLES
    reader,     \* the Reader under construction or in use: rander, alphabet, mask
    options,    \* NewReader: the options it was called with
    applied,    \* NewReader: how many options the loop has applied
    ret,        \* NewReader: its results (r, err); r is "pending" until it returns
    pc,         \* the call in progress: "idle", "rander.Read" (inside the source's
                \* Read), "Read.return" (Read has returned to NewWithSize), "done"
    entry,      \* the entry point called: "Reader.Read", "Read", "NewWithSize"
    size,       \* NewWithSize: its argument
    p,          \* Read: the byte slice being filled (NewWithSize: buf)
    n,          \* Read: result n
    err,        \* Read: result err
    random,     \* Read: the slice of random bytes on the custom alphabet path
    pointer,    \* Read: the pooled slice it holds (0: none)
    bufPointer, \* NewWithSize: the pooled slice it holds (0: none)
    got,        \* the source's Read in progress: the bytes it has written so far
    id,         \* NewWithSize: result id
    newErr,     \* NewWithSize: result err
    bufSlicePool, \* the pool: the slices in it (free) and how many New has made
    reads,      \* history: the calls of rander.Read made by this call (2: two or more)
    srcErr,     \* history: the error the last rander.Read returned
    shortRead,  \* history: a rander.Read returned fewer bytes than asked, with nil error
    usedUnfilled, \* history: Read used a buffer position the source did not fill
    delivered,  \* history: the bytes the rander.Read in progress, or the last one, wrote
    kept,       \* history: the indices selected from the delivered bytes (see Select)
    rejected,   \* history: Read has discarded a random byte
    calls       \* concurrent calls: for each, where it is and the slices it holds

newVars == <<reader, options, applied, ret>>

callVars == <<pc, entry, size, p, n, err, random, pointer, bufPointer, got, id,
              newErr, bufSlicePool>>

histVars == <<reads, srcErr, shortRead, usedUnfilled, delivered, kept, rejected>>

vars == <<reader, options, applied, ret, pc, entry, size, p, n, err, random,
          pointer, bufPointer, got, id, newErr, bufSlicePool, reads, srcErr,
          shortRead, usedUnfilled, delivered, kept, rejected, calls>>

\* The variables of one call on its own (the pool apart).
seqVars == <<reader, options, applied, ret, pc, entry, size, p, n, err, random,
             pointer, bufPointer, got, id, newErr, reads, srcErr, shortRead,
             usedUnfilled, delivered, kept, rejected>>

----------------------------------------------------------------------------
(* Program constants *)

MaxAlphabetSize == 256

bufSliceSize == 128

DefaultAlphabet ==
    << 77,111,100,117,108,101, 83,121,109, 98,104, 97,115, 79,119,110,
       80,114, 45, 48, 49, 50, 51, 52, 53, 54, 55, 56, 57, 65, 66, 67,
       68, 69, 70, 71, 72, 78, 82, 86,102,103, 99,116,105, 85,118,122,
       95, 75,113, 89, 84, 74,107, 76,120,112, 90, 88, 73,106, 81, 87 >>

customAlphabet ==
    << 48, 49, 50, 51, 52, 53, 54, 55, 56, 57, 65, 66, 67, 68, 69, 70,
       71, 72, 73, 74, 75, 76, 77, 78, 79, 80, 81, 82, 83, 84, 85, 86,
       87, 88, 89, 90, 95, 97, 98, 99,100,101,102,103,104,105,106,107,
      108,109,110,111,112,113,114,115,116,117,118,119,120,121,122, 45 >>

zeroString == << >>

----------------------------------------------------------------------------
(* Bounds of the model *)

\* NewReader is called with at most this many options.
MaxOptions == 3

\* Read and NewWithSize are called with sizes up to this one.
MaxBufLen == 2

\* The number of calls that run concurrently.
NumCalls == 2

\* The length of the data of the customRandReader in use.
CustomDataSize == 4

\* The random size is computed for nano ID sizes up to this one (21 is the
\* size of New and of TestReaderGetRandomSize).
MaxSize == 21

\* The byte values a random source supplies: with the alphabets below, each
\* alphabet accepts some and (unless its length is a power of two) rejects some.
ByteSet == {0, 66, 255}

\* What a slice holds before it is written: a caller's slice or one reused
\* from the pool holds earlier contents, a slice from make holds zeros.
StaleBytes == {255}

----------------------------------------------------------------------------
(* Machine arithmetic *)

RECURSIVE BitAnd(_, _)
\* x & y on non-negative integers.
BitAnd(x, y) ==
    IF x = 0 \/ y = 0 THEN 0
    ELSE (x % 2) * (y % 2) + 2 * BitAnd(x \div 2, y \div 2)

RECURSIVE BitOr(_, _)
\* x | y on non-negative integers.
BitOr(x, y) ==
    IF x = 0 THEN y
    ELSE IF y = 0 THEN x
    ELSE (IF x % 2 = 1 \/ y % 2 = 1 THEN 1 ELSE 0) + 2 * BitOr(x \div 2, y \div 2)

\* byte(x): the conversion of an int to a byte keeps the low 8 bits.
byte(x) == x % 256

RECURSIVE Log2Floor(_)
\* int(math.Log(float64(x)) / math.Ln2) for x >= 1. The operand in the code is
\* (size-1)|1, which is 1 or an odd number >= 3: log2 of it is 0 or is not an
\* integer, so the float quotient truncates to the floor of log2.
Log2Floor(x) == IF x <= 1 THEN 0 ELSE 1 + Log2Floor(x \div 2)

----------------------------------------------------------------------------
(* Random sources: values of type io.Reader *)

\* The nil io.Reader.
nilReader == [type |-> "nil", data |-> << >>]

\* crypto/rand.Reader: fills the whole slice it is given.
randReader == [type |-> "rand.Reader", data |-> << >>]

\* newCustomRandReader(size): the test source whose data cycles 0..254.
newCustomRandReader(dataSize) ==
    [type |-> "customRandReader", data |-> [k \in 1..dataSize |-> (k - 1) % 255]]

\* &customRandReader{}: the test source with nil data.
emptyCustomRandReader == [type |-> "customRandReader", data |-> << >>]

\* Any other implementation of io.Reader: it may fill fewer bytes than asked
\* and may return any error.
ioReader == [type |-> "io.Reader", data |-> << >>]

----------------------------------------------------------------------------
(* Reader and its options *)

RECURSIVE CeilLog2(_)
\* The least k with 2^k >= x.
CeilLog2(x) == IF x <= 1 THEN 0 ELSE 1 + CeilLog2((x + 1) \div 2)

\* MaskOf computed as 2^ceil(log2(size)) - 1, which is 0 for one symbol.
MaskOfCeilLog(alphabetSize) == 2^CeilLog2(alphabetSize) - 1

\* MaskOf with 1 shifted where the code shifts 2.
MaskOfShiftOne(alphabetSize) ==
    LET clz32 == 31 - Log2Floor(BitOr(alphabetSize - 1, 1))
    IN  (1 * 2^(31 - clz32)) - 1

\* initializeMask: the mask of the reader's alphabet (its caller has checked
\* that the alphabet is not empty; on an empty alphabet the code panics).
MaskOf(alphabetSize) ==
    LET clz32 == 31 - Log2Floor(BitOr(alphabetSize - 1, 1))
    IN  (2 * 2^(31 - clz32)) - 1

initializeMask(r) == [r EXCEPT !.mask = MaskOf(Len(r.alphabet))]

\* The option WithAlphabet(alphabet) applied to reader r: the reader it
\* leaves and the error it returns.
WithAlphabet(alphabet, r) ==
    IF Len(alphabet) = 0
    THEN [reader |-> r, err |-> "alphabet invalid"]
    ELSE IF Len(alphabet) > MaxAlphabetSize
    THEN [reader |-> r, err |-> "alphabet is too long"]
    ELSE [reader |-> initializeMask([r EXCEPT !.alphabet = alphabet]),
          err |-> "nil"]

\* The option WithRandReader(rander) applied to reader r.
WithRandReader(rander, r) ==
    IF rander.type = "nil"
    THEN [reader |-> r, err |-> "nil rand reader"]
    ELSE [reader |-> [r EXCEPT !.rander = rander], err |-> "nil"]

\* An option value is one of the two closures; applying it runs its body.
AlphabetOption(a) == [kind |-> "WithAlphabet", alphabet |-> a, rander |-> nilReader]

RandReaderOption(x) == [kind |-> "WithRandReader", alphabet |-> << >>, rander |-> x]

ApplyTo(option, r) ==
    IF option.kind = "WithAlphabet"
    THEN WithAlphabet(option.alphabet, r)
    ELSE WithRandReader(option.rander, r)

\* The Reader literal NewReader (and defaultReader) starts from.
NewReaderLiteral == [rander |-> randReader, alphabet |-> zeroString, mask |-> 0]

defaultReader == [rander |-> randReader, alphabet |-> zeroString, mask |-> 0]

\* getRandomSize without math.Ceil: the conversion to int truncates.
getRandomSizeTruncated(r, sz) == (8 * r.mask * sz) \div (5 * Len(r.alphabet))

\* getRandomSize: int(math.Ceil(1.6 * float64(mask*size) / float64(len(alphabet)))).
\* The float64 result is the exact ceiling of 8*mask*size / (5*len(alphabet)):
\* when 5 divides mask*size the product 1.6*x rounds to the integer 8x/5
\* exactly (the error of the constant 1.6 is below half an ulp of the product),
\* and otherwise the quotient is at least 1/(5*len) away from an integer.
\* The code panics on an empty alphabet and on mask <= 0 (getRandomSizePanics).
getRandomSize(r, sz) ==
    LET num == 8 * r.mask * sz
        den == 5 * Len(r.alphabet)
    IN  (num + den - 1) \div den

getRandomSizePanics(r) == Len(r.alphabet) = 0 \/ r.mask <= 0

\* An alphabet of len distinct symbols ("abc..."); beyond 256 bytes repeat.
TestAlphabet(len) == [k \in 1..len |-> (97 + (k - 1)) % 256]

----------------------------------------------------------------------------
(* NewReader *)

\* The options the model calls NewReader with.
OptionUniverse ==
    { AlphabetOption(a) :
        a \in {zeroString, TestAlphabet(1), TestAlphabet(3), customAlphabet,
               TestAlphabet(MaxAlphabetSize), TestAlphabet(MaxAlphabetSize + 1)} }
    \cup
    { RandReaderOption(x) :
        x \in {nilReader, randReader, ioReader, emptyCustomRandReader} }

OptionLists == UNION { [1..k -> OptionUniverse] : k \in 0..MaxOptions }

\* NewReaderApply going on to the next option after one failed.
NewReaderApplyNoFailFast ==
    /\ ret.r = "pending"
    /\ applied < Len(options)
    /\ reader' = ApplyTo(options[applied + 1], reader).reader
    /\ applied' = applied + 1
    /\ UNCHANGED <<calls, options, ret, pc, entry, size, p, n, err, random, pointer,
                   bufPointer, got, id, newErr, bufSlicePool, reads, srcErr,
                   shortRead, usedUnfilled, delivered, kept, rejected>>

\* Lines 191-196: one turn of the loop over the options.
NewReaderApply ==
    /\ ret.r = "pending"
    /\ applied < Len(options)
    /\ LET res == ApplyTo(options[applied + 1], reader)
       IN  /\ reader' = res.reader
           /\ ret' = IF res.err # "nil" THEN [r |-> "nil", err |-> res.err] ELSE ret
    /\ applied' = applied + 1
    /\ UNCHANGED <<calls, options, pc, entry, size, p, n, err, random, pointer,
                   bufPointer, got, id, newErr, bufSlicePool, reads, srcErr,
                   shortRead, usedUnfilled, delivered, kept, rejected>>

\* Line 197: every option applied, NewReader returns the reader.
NewReaderReturn ==
    /\ ret.r = "pending"
    /\ applied = Len(options)
    /\ ret' = [r |-> "reader", err |-> "nil"]
    /\ UNCHANGED <<calls, reader, options, applied, pc, entry, size, p, n, err, random,
                   pointer, bufPointer, got, id, newErr, bufSlicePool, reads,
                   srcErr, shortRead, usedUnfilled, delivered, kept, rejected>>

RECURSIVE ApplyAll(_, _)
\* NewReader(opts...) as a function: the reader all the options leave, when
\* all are valid.
ApplyAll(opts, r) ==
    IF opts = << >> THEN r ELSE ApplyAll(Tail(opts), ApplyTo(Head(opts), r).reader)

\* One more option WithAlphabet, of any length, on the reader at hand.
ApplyWithAlphabet(len) ==
    /\ applied < MaxOptions
    /\ LET res == WithAlphabet(TestAlphabet(len), reader)
       IN  /\ reader' = res.reader
           /\ ret' = [r |-> "pending", err |-> res.err]
    /\ applied' = applied + 1
    /\ UNCHANGED <<calls, options, pc, entry, size, p, n, err, random, pointer,
                   bufPointer, got, id, newErr, bufSlicePool, reads, srcErr,
                   shortRead, usedUnfilled, delivered, kept, rejected>>

----------------------------------------------------------------------------
(* bufSlicePool: a sync.Pool of pointers to byte slices of bufSliceSize *)

\* The pooled slices are numbered 1, 2, ...; 0 is no slice.
EmptyPool == [free |-> {}, made |-> 0]

\* bufSlicePool.Get(): an arbitrary slice of the pool, removed from it, or
\* (the pool empty, or Get ignoring it) a new one from New. reused tells which.
PoolGet(pool) ==
    { [pointer |-> x, reused |-> TRUE, pool |-> [pool EXCEPT !.free = @ \ {x}]]
        : x \in pool.free }
    \cup
    { [pointer |-> pool.made + 1, reused |-> FALSE,
       pool |-> [pool EXCEPT !.made = @ + 1]] }

\* bufSlicePool.Put(pointer).
PoolPut(pool, x) == [pool EXCEPT !.free = @ \cup {x}]

\* DeferredPut left out: the slice is never put back.
DeferredPutLeaks(pool, x) == pool

\* The deferred Put of a call that holds slice x (0: it holds none).
DeferredPut(pool, x) == IF x = 0 THEN pool ELSE PoolPut(pool, x)

\* The slices a call may get for a buffer of sz bytes: from the pool when
\* sz <= bufSliceSize, else from make. Each: the pointer held (0: none), the
\* slice's contents and the pool afterwards.
Slices(sz, pool) ==
    IF sz <= bufSliceSize
    THEN UNION { { [pointer |-> g.pointer, pool |-> g.pool,
                    bytes |-> [k \in 1..sz |-> b]]
                   : b \in IF g.reused THEN StaleBytes ELSE {0} }
                 : g \in PoolGet(pool) }
    ELSE { [pointer |-> 0, pool |-> pool, bytes |-> [k \in 1..sz |-> 0]] }

----------------------------------------------------------------------------
(* Reader.Read *)

Min(a, b) == IF a <= b THEN a ELSE b

\* Line 140: whether Read accepts the masked byte.
Accepts(r, position) == position < byte(Len(r.alphabet))

RECURSIVE Scan(_, _, _, _, _, _)
\* The loop over random (lines 138-147) from Go index i on, with the output
\* slice out and the count cnt: the slice and count it leaves, the
\* number of bytes of random it looked at, and whether it discarded one.
Scan(r, rnd, i, out, cnt, rej) ==
    IF i = Len(rnd)
    THEN [p |-> out, n |-> cnt, used |-> i, rejected |-> rej]
    ELSE LET position == BitAnd(rnd[i + 1], byte(r.mask))
         IN  IF Accepts(r, position)
             THEN LET out2 == [out EXCEPT ![cnt + 1] = r.alphabet[position + 1]]
                  IN  IF cnt + 1 = Len(out)
                      THEN [p |-> out2, n |-> cnt + 1, used |-> i + 1,
                            rejected |-> rej]
                      ELSE Scan(r, rnd, i + 1, out2, cnt + 1, rej)
             ELSE Scan(r, rnd, i + 1, out, cnt, TRUE)

\* MapDefault masking with 31 where the code masks with 63.
MapDefault31(buf) == [k \in 1..Len(buf) |-> DefaultAlphabet[BitAnd(buf[k], 31) + 1]]

\* Lines 117-119: the default alphabet's symbol for each byte of p.
MapDefault(buf) == [k \in 1..Len(buf) |-> DefaultAlphabet[BitAnd(buf[k], 63) + 1]]

\* The indices the rule "keep the bytes whose masked value is below the
\* alphabet length" selects from bytes bs, in order.
RECURSIVE Select(_, _)
Select(r, bs) ==
    IF bs = << >> THEN << >>
    ELSE LET v == BitAnd(Head(bs), r.mask)
         IN  IF v < Len(r.alphabet) THEN <<v>> \o Select(r, Tail(bs))
             ELSE Select(r, Tail(bs))

Take(s, k) == SubSeq(s, 1, Min(k, Len(s)))

\* ReadReturns wrapping the source's error in one of its own.
ReadReturnsWrapping(out, cnt, e, pool) ==
    /\ p' = out
    /\ n' = cnt
    /\ err' = IF e \in {"nil", "io.ErrShortBuffer"} THEN e ELSE "nanoid: read failed"
    /\ bufSlicePool' = DeferredPut(pool, pointer)
    /\ pointer' = 0
    /\ pc' = IF entry' = "NewWithSize" THEN "Read.return" ELSE "done"

\* Read returns (cnt, e) with the slice out: its deferred Put runs, and the
\* caller goes on (NewWithSize) or the call is over.
ReadReturns(out, cnt, e, pool) ==
    /\ p' = out
    /\ n' = cnt
    /\ err' = e
    /\ bufSlicePool' = DeferredPut(pool, pointer)
    /\ pointer' = 0
    /\ pc' = IF entry' = "NewWithSize" THEN "Read.return" ELSE "done"

\* Lines 107-131 and the first rander.Read: Reader.Read(buf) on reader r, with
\* the pool as it is on entry.
StartRead(r, buf, pool) ==
    /\ reader' = r
    /\ got' = 0
    /\ srcErr' = "nil"
    /\ UNCHANGED <<shortRead, usedUnfilled, delivered, kept, rejected>>
    /\ IF Len(buf) = 0
       THEN /\ ReadReturns(buf, 0, "io.ErrShortBuffer", pool)
            /\ UNCHANGED <<random, reads>>
       ELSE IF Len(r.alphabet) = 0
       THEN /\ p' = buf
            /\ pc' = "rander.Read"
            /\ reads' = 1
            /\ bufSlicePool' = pool
            /\ UNCHANGED <<n, err, random, pointer>>
       ELSE IF getRandomSizePanics(r)
       THEN /\ p' = buf
            /\ pc' = "panic"
            /\ bufSlicePool' = pool
            /\ UNCHANGED <<n, err, random, pointer, reads>>
       ELSE \E s \in Slices(getRandomSize(r, Len(buf)), pool) :
            /\ p' = buf
            /\ random' = s.bytes
            /\ pointer' = s.pointer
            /\ bufSlicePool' = s.pool
            /\ pc' = "rander.Read"
            /\ reads' = 1
            /\ UNCHANGED <<n, err>>

\* A caller's slice of k bytes.
Buffers == { [k \in 1..len |-> b] : len \in 0..MaxBufLen, b \in StaleBytes }

\* reader.Read(buf) on a reader that NewReader returned.
CallReaderRead(r, buf) ==
    /\ pc = "idle"
    /\ entry' = "Reader.Read"
    /\ StartRead(r, buf, bufSlicePool)
    /\ UNCHANGED <<calls, options, applied, ret, size, bufPointer, id, newErr>>

\* Read(buf), line 208.
CallRead(buf) ==
    /\ pc = "idle"
    /\ entry' = "Read"
    /\ StartRead(defaultReader, buf, bufSlicePool)
    /\ UNCHANGED <<calls, options, applied, ret, size, bufPointer, id, newErr>>

\* SizeTooSmall letting size 0 through.
SizeTooSmallBelowZero(sz) == sz < 0

\* Line 214.
SizeTooSmall(sz) == sz < 1

\* NewWithSize(sz), lines 213-227, up to the first rander.Read of its Read.
CallNewWithSize(sz) ==
    /\ pc = "idle"
    /\ entry' = "NewWithSize"
    /\ size' = sz
    /\ UNCHANGED <<calls, options, applied, ret>>
    /\ IF SizeTooSmall(sz)
       THEN /\ id' = zeroString
            /\ newErr' = "size is too small"
            /\ pc' = "done"
            /\ UNCHANGED <<reader, p, n, err, random, pointer, bufPointer, got,
                           bufSlicePool, reads, srcErr, shortRead, usedUnfilled, delivered,
                           kept, rejected>>
       ELSE \E s \in Slices(sz, bufSlicePool) :
            /\ bufPointer' = s.pointer
            /\ StartRead(defaultReader, s.bytes, s.pool)
            /\ UNCHANGED <<id, newErr>>

\* The source's Read writes byte b at the next position of the slice it was
\* given: p on the default path (line 113), random otherwise (line 134).
RanderWrite(b) ==
    /\ pc = "rander.Read"
    /\ LET target == IF Len(reader.alphabet) = 0 THEN p ELSE random
       IN  /\ got < Len(target)
           /\ \/ reader.rander.type \in {"rand.Reader", "io.Reader"}
              \/ /\ reader.rander.type = "customRandReader"
                 /\ got < Len(reader.rander.data)
                 /\ b = reader.rander.data[got + 1]
    /\ IF Len(reader.alphabet) = 0
       THEN p' = [p EXCEPT ![got + 1] = b] /\ UNCHANGED random
       ELSE random' = [random EXCEPT ![got + 1] = b] /\ UNCHANGED p
    /\ got' = got + 1
    /\ delivered' = Append(delivered, b)
    /\ UNCHANGED <<calls, reader, options, applied, ret, pc, entry, size, n, err,
                   pointer, bufPointer, id, newErr, bufSlicePool, reads, srcErr,
                   shortRead, usedUnfilled, kept, rejected>>

\* The errors a source may return.
SourceErrors == {"io.EOF", "io.ErrUnexpectedEOF"}

\* Whether the source's Read may return (got, e) now.
MayReturn(rander, asked, e) ==
    \/ rander.type = "rand.Reader" /\ got = asked /\ e = "nil"
    \/ /\ rander.type = "customRandReader"
       /\ got = Min(asked, Len(rander.data))
       /\ e = IF got < asked THEN "io.EOF" ELSE "nil"
    \/ rander.type = "io.Reader" /\ e \in SourceErrors \cup {"nil"}

\* Lines 114-120: Read goes on after rander.Read(p) returned e.
ResumeDefault(e) ==
    /\ IF e # "nil"
       THEN /\ ReadReturns(p, 0, e, bufSlicePool)
            /\ UNCHANGED usedUnfilled
       ELSE /\ ReadReturns(MapDefault(p), Len(p), "nil", bufSlicePool)
            /\ usedUnfilled' = (usedUnfilled \/ got < Len(p))
    /\ UNCHANGED <<random, got, reads, delivered, kept, rejected>>

\* Lines 135-147: Read goes on after rander.Read(random) returned e, up to its
\* return or its next rander.Read.
ResumeCustom(e) ==
    IF e # "nil"
    THEN /\ ReadReturns(p, n, e, bufSlicePool)
         /\ UNCHANGED <<random, got, reads, usedUnfilled, delivered, kept, rejected>>
    ELSE LET s == Scan(reader, random, 0, p, n, FALSE)
         IN  /\ usedUnfilled' = (usedUnfilled \/ s.used > got)
             /\ rejected' = (rejected \/ s.rejected)
             /\ kept' = Take(kept \o Select(reader, delivered), Len(p))
             /\ UNCHANGED random
             /\ IF s.n = Len(p)
                THEN /\ ReadReturns(s.p, s.n, e, bufSlicePool)
                     /\ UNCHANGED <<got, reads, delivered>>
                ELSE /\ p' = s.p
                     /\ n' = s.n
                     /\ err' = e
                     /\ got' = 0
                     /\ delivered' = << >>
                     /\ reads' = Min(reads + 1, 2)
                     /\ UNCHANGED <<pc, pointer, bufSlicePool>>

\* The source's Read returns (got, e) and Read goes on.
RanderReturn(e) ==
    /\ pc = "rander.Read"
    /\ LET asked == IF Len(reader.alphabet) = 0 THEN Len(p) ELSE Len(random)
       IN  /\ MayReturn(reader.rander, asked, e)
           /\ shortRead' = (shortRead \/ (e = "nil" /\ got < asked))
    /\ srcErr' = e
    /\ UNCHANGED <<calls, reader, options, applied, ret, entry, size, bufPointer, id,
                   newErr>>
    /\ IF Len(reader.alphabet) = 0 THEN ResumeDefault(e) ELSE ResumeCustom(e)

\* Lines 227-231 and the deferred Put of line 221: NewWithSize after its Read
\* returned.
NewWithSizeReturn ==
    /\ pc = "Read.return"
    /\ IF err # "nil"
       THEN id' = zeroString /\ newErr' = err
       ELSE id' = p /\ newErr' = "nil"
    /\ bufSlicePool' = DeferredPut(bufSlicePool, bufPointer)
    /\ bufPointer' = 0
    /\ pc' = "done"
    /\ UNCHANGED <<calls, reader, options, applied, ret, entry, size, p, n, err, random,
                   pointer, got, reads, srcErr, shortRead, usedUnfilled, delivered, kept,
                   rejected>>

----------------------------------------------------------------------------
(* Concurrent calls of Reader.Read and NewWithSize on the one pool.          *)
(* Here a call is its position, the slices it holds and the sizes that       *)
(* decide where its slices come from; the bytes are left to the actions      *)
(* above. A call's steps are the same: entry up to the first rander.Read,    *)
(* each return of rander.Read, and NewWithSize's return.                     *)

CallIds == 1..NumCalls

\* Slice and nano ID sizes on both sides of bufSliceSize: with the 64 symbol
\* alphabet 81 bytes need 128 random bytes and 82 need 130.
CallSizes == {0, 1, 81, 82, bufSliceSize, bufSliceSize + 1}

IdleCall ==
    [pc |-> "idle", entry |-> "none", custom |-> FALSE, len |-> 0, size |-> 0,
     scratch |-> 0, pointer |-> 0, bufPointer |-> 0, took |-> {}, reads |-> 0]

\* Read returns in call c: its deferred Put (line 127) runs.
ReadExit(c, pool) ==
    [call |-> [c EXCEPT !.pointer = 0,
                        !.pc = IF c.entry = "NewWithSize" THEN "Read.return"
                               ELSE "done"],
     pool |-> DeferredPut(pool, c.pointer)]

\* Lines 107-131 in call c: Reader.Read on reader r with a slice of len bytes.
ReadEntry(c, r, len, pool) ==
    IF len = 0
    THEN { ReadExit([c EXCEPT !.len = len], pool) }
    ELSE IF Len(r.alphabet) = 0
    THEN { [call |-> [c EXCEPT !.pc = "rander.Read", !.len = len, !.reads = 1],
            pool |-> pool] }
    ELSE IF getRandomSizePanics(r)
    THEN { [call |-> [c EXCEPT !.pc = "panic", !.len = len], pool |-> pool] }
    ELSE { [call |-> [c EXCEPT !.pc = "rander.Read", !.len = len, !.reads = 1,
                               !.custom = TRUE,
                               !.scratch = getRandomSize(r, len),
                               !.pointer = s.pointer,
                               !.took = @ \cup ({s.pointer} \ {0})],
            pool |-> s.pool]
           : s \in Slices(getRandomSize(r, len), pool) }

\* Call c is reader.Read(buf) with len(buf) = len.
ConcReaderRead(c, r, len) ==
    /\ calls[c].pc = "idle"
    /\ \E o \in ReadEntry([calls[c] EXCEPT !.entry = "Reader.Read"], r, len,
                           bufSlicePool) :
         /\ calls' = [calls EXCEPT ![c] = o.call]
         /\ bufSlicePool' = o.pool
    /\ UNCHANGED seqVars

\* Call c is NewWithSize(sz): lines 213-227.
ConcNewWithSize(c, sz) ==
    /\ calls[c].pc = "idle"
    /\ IF SizeTooSmall(sz)
       THEN /\ calls' = [calls EXCEPT ![c] = [@ EXCEPT !.entry = "NewWithSize",
                                                       !.size = sz,
                                                       !.pc = "done"]]
            /\ UNCHANGED bufSlicePool
       ELSE \E s \in Slices(sz, bufSlicePool) :
            \E o \in ReadEntry([calls[c] EXCEPT !.entry = "NewWithSize",
                                                !.size = sz,
                                                !.bufPointer = s.pointer,
                                                !.took = @ \cup ({s.pointer} \ {0})],
                               defaultReader, sz, s.pool) :
              /\ calls' = [calls EXCEPT ![c] = o.call]
              /\ bufSlicePool' = o.pool
    /\ UNCHANGED seqVars

\* The rander.Read of call c returns: with an error (lines 114-116, 135-137),
\* with bytes that complete the output (lines 117-120, 143-145), or, on the
\* custom path, with bytes that leave it incomplete (the loop goes round).
ConcRanderReturn(c, outcome) ==
    /\ calls[c].pc = "rander.Read"
    /\ IF outcome = "more"
       THEN /\ calls[c].custom
            /\ calls' = [calls EXCEPT ![c].reads = Min(@ + 1, 2)]
            /\ UNCHANGED bufSlicePool
       ELSE LET o == ReadExit(calls[c], bufSlicePool)
            IN  /\ calls' = [calls EXCEPT ![c] = o.call]
                /\ bufSlicePool' = o.pool
    /\ UNCHANGED seqVars

\* Lines 227-231 in call c, and the deferred Put of line 221.
ConcNewWithSizeReturn(c) ==
    /\ calls[c].pc = "Read.return"
    /\ calls' = [calls EXCEPT ![c] = [@ EXCEPT !.pc = "done", !.bufPointer = 0]]
    /\ bufSlicePool' = DeferredPut(bufSlicePool, calls[c].bufPointer)
    /\ UNCHANGED seqVars

----------------------------------------------------------------------------
(* Specifications *)

\* No call in progress.
NoCall ==
    /\ pc = "idle" /\ entry = "none" /\ size = 0
    /\ p = << >> /\ n = 0 /\ err = "nil"
    /\ random = << >> /\ pointer = 0 /\ bufPointer = 0 /\ got = 0
    /\ id = zeroString /\ newErr = "nil"
    /\ reads = 0 /\ srcErr = "nil"
    /\ shortRead = FALSE /\ usedUnfilled = FALSE
    /\ delivered = << >> /\ kept = << >> /\ rejected = FALSE

\* No concurrent calls.
NoCalls == calls = [c \in CallIds |-> IdleCall]

\* NewReader not called.
NoNewReader ==
    /\ options = << >> /\ applied = 0 /\ ret = [r |-> "pending", err |-> "nil"]

\* The alphabets and sources of the readers in use.
Alphabets ==
    {TestAlphabet(1), TestAlphabet(2), TestAlphabet(3), customAlphabet,
     TestAlphabet(MaxAlphabetSize)}

\* The sources: any io.Reader (crypto/rand.Reader is one that always fills
\* the slice and returns nil) and the tests' customRandReader.
Randers ==
    {ioReader, newCustomRandReader(CustomDataSize), emptyCustomRandReader}

\* The readers NewReader returns for sources xs, with or without an alphabet.
ReadersOf(xs) ==
    { ApplyAll(<<RandReaderOption(x)>>, NewReaderLiteral) : x \in xs }
    \cup
    { ApplyAll(<<RandReaderOption(x), AlphabetOption(a)>>, NewReaderLiteral)
        : x \in xs, a \in Alphabets }

Readers == ReadersOf(Randers)

\* One call of Reader.Read, Read or NewWithSize, on a pool that is empty or
\* holds a slice an earlier call put back.
Init ==
    /\ NoCalls
    /\ NoNewReader
    /\ NoCall
    /\ reader = defaultReader
    /\ bufSlicePool \in {EmptyPool, [free |-> {1}, made |-> 1]}

Next ==
    \/ \E r \in Readers, buf \in Buffers : CallReaderRead(r, buf)
    \/ \E buf \in Buffers : CallRead(buf)
    \/ \E sz \in -1..MaxBufLen : CallNewWithSize(sz)
    \/ \E b \in ByteSet : RanderWrite(b)
    \/ \E e \in SourceErrors \cup {"nil"} : RanderReturn(e)
    \/ NewWithSizeReturn

Spec == Init /\ [][Next]_vars

\* One call of NewReader.
InitNew ==
    /\ NoCalls
    /\ NoCall
    /\ bufSlicePool = EmptyPool
    /\ reader = NewReaderLiteral
    /\ options \in OptionLists
    /\ applied = 0
    /\ ret = [r |-> "pending", err |-> "nil"]

NextNew == NewReaderApply \/ NewReaderReturn

SpecNew == InitNew /\ [][NextNew]_vars

\* WithAlphabet options of every length, one after the other on one reader.
InitMask ==
    /\ NoCalls
    /\ NoCall
    /\ NoNewReader
    /\ bufSlicePool = EmptyPool
    /\ reader = NewReaderLiteral

NextMask == \E len \in 0..(MaxAlphabetSize + 1) : ApplyWithAlphabet(len)

SpecMask == InitMask /\ [][NextMask]_vars

\* NumCalls concurrent calls, each of Reader.Read (on any of the readers, the
\* default reader among them) or of NewWithSize, interleaved step by step.
InitPool ==
    /\ NoNewReader
    /\ NoCall
    /\ NoCalls
    /\ reader = defaultReader
    /\ bufSlicePool = EmptyPool

NextPool ==
    \/ \E c \in CallIds, r \in ReadersOf({randReader}), len \in CallSizes :
         ConcReaderRead(c, r, len)
    \/ \E c \in CallIds, sz \in CallSizes : ConcNewWithSize(c, sz)
    \/ \E c \in CallIds, outcome \in {"error", "full", "more"} :
         ConcRanderReturn(c, outcome)
    \/ \E c \in CallIds : ConcNewWithSizeReturn(c)

SpecPool == InitPool /\ [][NextPool]_vars

\* One call of Reader.Read with a non-empty slice on a reader whose source is
\* crypto/rand.Reader, which never fails and keeps supplying every byte value:
\* the call goes on while it can, and a byte value that can be written
\* again and again is written again and again.
LiveReaders == ReadersOf({randReader})

InitLive ==
    /\ NoCalls
    /\ NoNewReader
    /\ NoCall
    /\ reader = defaultReader
    /\ bufSlicePool = EmptyPool

NextLive ==
    \/ \E r \in LiveReaders, buf \in Buffers \ {<< >>} : CallReaderRead(r, buf)
    \/ \E b \in ByteSet : RanderWrite(b)
    \/ RanderReturn("nil")

SpecLive ==
    /\ InitLive
    /\ [][NextLive]_vars
    /\ WF_vars(NextLive)
    /\ \A b \in ByteSet : SF_vars(RanderWrite(b))

\* One call of Reader.Read on a reader with an alphabet of any valid length
\* and a slice of any length from 1 to MaxSize: the call computes its random
\* size on entry (line 123) and goes on to return.
SizeReaders ==
    { ApplyAll(<<RandReaderOption(randReader), AlphabetOption(TestAlphabet(len))>>,
               NewReaderLiteral) : len \in 1..MaxAlphabetSize }

InitSize ==
    /\ NoNewReader
    /\ NoCall
    /\ NoCalls
    /\ reader \in SizeReaders
    /\ bufSlicePool = EmptyPool

NextSize ==
    \/ \E len \in 1..MaxSize : ConcReaderRead(1, reader, len)
    \/ \E outcome \in {"error", "full", "more"} : ConcRanderReturn(1, outcome)

SpecSize == InitSize /\ [][NextSize]_vars

----------------------------------------------------------------------------
(* Properties *)

Range(seq) == { seq[k] : k \in 1..Len(seq) }

\* Read has returned to its caller (its results n, err and the slice p stand).
ReadReturned == pc \in {"Read.return", "done"} /\ ~(entry = "NewWithSize" /\ size < 1)

\* The call reads with a custom alphabet.
CustomPath == pc # "idle" /\ Len(reader.alphabet) > 0

\* The call reads with the default alphabet.
DefaultPath == pc # "idle" /\ Len(reader.alphabet) = 0 /\ Len(p) > 0

\* The alphabet the call's output is drawn from.
OutputAlphabet == IF Len(reader.alphabet) = 0 THEN DefaultAlphabet ELSE reader.alphabet

\* C1: with a source that never fails and keeps supplying every byte value,
\* Reader.Read on a non-empty slice eventually returns, and when it has
\* returned the count is the slice's length, the error is nil and every byte
\* of the slice is a symbol of the alphabet in use.
C1_ReadFillsBuffer ==
    /\ <>(pc = "done")
    /\ [](pc = "done" =>
            /\ n = Len(p)
            /\ err = "nil"
            /\ \A k \in 1..Len(p) : p[k] \in Range(OutputAlphabet))

\* C2: on the custom alphabet path, with every batch delivered whole, the
\* output between batches and on return is the selection from the delivered
\* bytes (those whose masked value is below the alphabet length) mapped
\* through the alphabet, a successful Read has used exactly the first len(p)
\* selected bytes, and with the 64 symbol alphabet and the source that cycles
\* 0..254 the output is the alphabet cut to len(p).
C2_OutputIsSelection ==
    (/\ CustomPath
     /\ ~shortRead
     /\ srcErr = "nil"
     /\ pc = "done" \/ (pc = "rander.Read" /\ got = 0))
    => /\ n = Len(kept)
       /\ \A k \in 1..n : p[k] = reader.alphabet[kept[k] + 1]
       /\ (pc = "done" /\ err = "nil") => n = Len(p)
       /\ (/\ pc = "done" /\ err = "nil"
           /\ reader.alphabet = customAlphabet
           /\ reader.rander.type = "customRandReader")
          => p = SubSeq(customAlphabet, 1, Len(p))

\* C3: on the default path a successful Read whose source delivered the whole
\* slice made exactly one read, rejected no byte, returns len(p) and has set
\* every byte to DefaultAlphabet[b & 63] for the byte b delivered there.
C3_DefaultPathMapsEveryByte ==
    (DefaultPath /\ ReadReturned /\ err = "nil" /\ ~shortRead)
    => /\ reads = 1
       /\ ~rejected
       /\ n = Len(p)
       /\ Len(delivered) = Len(p)
       /\ \A k \in 1..Len(p) : p[k] = DefaultAlphabet[(delivered[k] % 64) + 1]

C3_Witness ==
    /\ DefaultPath /\ pc = "done" /\ err = "nil" /\ ~shortRead
    /\ entry = "Reader.Read"
    /\ Len(p) = MaxBufLen
    /\ 255 \in Range(delivered) /\ 66 \in Range(delivered)

\* C4: once the source has returned an error, Read has returned without
\* another read of the source: its error is that error, its count is below
\* len(p), and the count is the number of alphabet symbols in the slice (on
\* the custom path the first n bytes are symbols and the rest are as the
\* caller left them; on the default path n is 0 and the slice holds what the
\* source wrote, no symbol).
C4_SourceErrorReturned ==
    (pc # "idle" /\ srcErr # "nil")
    => /\ ReadReturned
       /\ err = srcErr
       /\ n < Len(p)
       /\ IF Len(reader.alphabet) > 0
          THEN /\ \A k \in 1..n : p[k] \in Range(reader.alphabet)
               /\ \A k \in (n + 1)..Len(p) : p[k] \in StaleBytes
               /\ reads \in {1, 2}
          ELSE /\ n = 0
               /\ reads = 1
               /\ \A k \in 1..Len(p) :
                     IF k <= Len(delivered) THEN p[k] = delivered[k]
                     ELSE p[k] \in StaleBytes \cup {0}

C4_Witness ==
    /\ CustomPath /\ pc = "done" /\ srcErr = "io.ErrUnexpectedEOF"
    /\ reads = 2 /\ n >= 1 /\ got >= 1

\* C5: Read does not return success after a short read of the source, nor
\* with output taken from buffer positions the source did not fill.
C5_ShortReadIsAnError ==
    (ReadReturned /\ err = "nil") => (~shortRead /\ ~usedUnfilled)

\* C6: Reader.Read and Read on an empty slice return 0 and an error, and
\* NewWithSize with size < 1 returns the empty string and an error, each at
\* once and without a read of the source, whatever the reader's alphabet.
C6_UsageErrorsReadNothing ==
    /\ (pc # "idle" /\ entry \in {"Reader.Read", "Read"} /\ Len(p) = 0)
       => (pc = "done" /\ n = 0 /\ err # "nil" /\ reads = 0 /\ got = 0)
    /\ (pc # "idle" /\ entry = "NewWithSize" /\ size < 1)
       => (pc = "done" /\ id = zeroString /\ newErr # "nil" /\ reads = 0 /\ got = 0)

C6_Witness ==
    /\ pc = "done" /\ entry = "Reader.Read" /\ Len(p) = 0
    /\ reader.alphabet = customAlphabet
    /\ err = "io.ErrShortBuffer"

\* What the claim C7 calls an invalid option, and its error.
Invalid(option) ==
    IF option.kind = "WithAlphabet"
    THEN Len(option.alphabet) = 0 \/ Len(option.alphabet) > 256
    ELSE option.rander = nilReader

FirstInvalid ==
    IF \E k \in 1..Len(options) : Invalid(options[k])
    THEN CHOOSE k \in 1..Len(options) :
            Invalid(options[k]) /\ \A j \in 1..(k - 1) : ~Invalid(options[j])
    ELSE 0

\* The alphabet (source) of the last WithAlphabet (WithRandReader) among the
\* first k options, or the one of the Reader literal.
RECURSIVE LastAlphabet(_)
LastAlphabet(k) ==
    IF k = 0 THEN zeroString
    ELSE IF options[k].kind = "WithAlphabet" THEN options[k].alphabet
    ELSE LastAlphabet(k - 1)

RECURSIVE LastRander(_)
LastRander(k) ==
    IF k = 0 THEN randReader
    ELSE IF options[k].kind = "WithRandReader" THEN options[k].rander
    ELSE LastRander(k - 1)

\* C7: NewReader applies the options in order; with an invalid option it
\* returns a nil reader and the error of the first invalid one, having applied
\* the options before it and none after it; with none it returns a reader
\* and a nil error, the reader's alphabet and source being those of the last
\* WithAlphabet and the last WithRandReader.
C7_NewReaderFailsFast ==
    /\ applied <= Len(options)
    /\ ret.r = "nil"
       => /\ FirstInvalid = applied
          /\ ret.err # "nil"
          /\ ret.err = ApplyTo(options[applied], NewReaderLiteral).err
          /\ reader.alphabet = LastAlphabet(applied - 1)
          /\ reader.rander = LastRander(applied - 1)
    /\ ret.r = "reader"
       => /\ FirstInvalid = 0
          /\ ret.err = "nil"
          /\ applied = Len(options)
          /\ reader.alphabet = LastAlphabet(Len(options))
          /\ reader.rander = LastRander(Len(options))
    /\ (ret.r = "pending" /\ FirstInvalid # 0) => applied < FirstInvalid

C7_Witness ==
    /\ ret.r = "nil"
    /\ applied = 2 /\ Len(options) = 3
    /\ options[1].kind = "WithAlphabet"
    /\ options[2].kind = "WithAlphabet" /\ Len(options[2].alphabet) > MaxAlphabetSize
    /\ options[3].kind = "WithRandReader" /\ options[3].rander = ioReader
    /\ reader.rander = randReader

\* C8 as stated: with an alphabet of one symbol the mask is 0, no byte is
\* rejected and a successful Read fills the slice with the symbol.
C8_OneSymbolMaskZero ==
    (CustomPath /\ Len(reader.alphabet) = 1)
    => /\ reader.mask = 0
       /\ ~rejected
       /\ (pc = "done" /\ err = "nil")
          => (n = Len(p) /\ \A k \in 1..Len(p) : p[k] = reader.alphabet[1])

\* C8 amended: with an alphabet of one symbol the mask is 1, Read accepts a
\* byte exactly when its low bit is 0 (it rejects the odd bytes), and a
\* successful Read fills the slice with the symbol.
C8_OneSymbolMaskOne ==
    (CustomPath /\ Len(reader.alphabet) = 1)
    => /\ reader.mask = 1
       /\ pc # "panic"
       /\ \A b \in 0..255 :
             Accepts(reader, BitAnd(b, byte(reader.mask))) <=> (b % 2 = 0)
       /\ (pc = "done" /\ err = "nil")
          => (n = Len(p) /\ \A k \in 1..Len(p) : p[k] = reader.alphabet[1])

C8_Witness ==
    /\ CustomPath /\ Len(reader.alphabet) = 1
    /\ pc = "done" /\ err = "nil" /\ ~shortRead
    /\ rejected
    /\ n = MaxBufLen

IsPowerOfTwo(x) == \E k \in 0..9 : x = 2^k

\* C10: the mask of a reader with an alphabet of L symbols is one less than a
\* power of two, at least L - 1 and below 2 * L, and 63 for 64 symbols,
\* after any number of WithAlphabet options.
C10_MaskBounds ==
    Len(reader.alphabet) > 0
    => /\ Len(reader.alphabet) <= MaxAlphabetSize
       /\ IsPowerOfTwo(reader.mask + 1)
       /\ reader.mask >= Len(reader.alphabet) - 1
       /\ reader.mask < 2 * Len(reader.alphabet)
       /\ Len(reader.alphabet) = 64 => reader.mask = 63

C10_Witness ==
    /\ applied >= 2
    /\ ret.err = "nil"
    /\ Len(reader.alphabet) = 64
    /\ reader.mask = 63

\* The pooled slices call c holds.
Held(c) == {calls[c].pointer, calls[c].bufPointer} \ {0}

InFlight(c) == calls[c].pc \in {"rander.Read", "Read.return"}

\* C9: under every interleaving, no pooled slice is held by two calls in
\* flight nor is in the pool while a call holds it; Read holds a pooled slice
\* exactly when its random size is at most 128 and NewWithSize exactly when
\* its size is at most 128; and a call that has returned holds no slice: every
\* slice it took is back in the pool or held by a call that took it after.
C9_PooledSlicesExclusive ==
    /\ \A c \in CallIds : Held(c) \cap bufSlicePool.free = {}
    /\ \A c \in CallIds : Held(c) \subseteq 1..bufSlicePool.made
    /\ \A c1, c2 \in CallIds : c1 # c2 => Held(c1) \cap Held(c2) = {}
    /\ \A c \in CallIds :
         /\ (calls[c].pc = "rander.Read" /\ calls[c].custom)
            => (calls[c].pointer # 0 <=> calls[c].scratch <= 128)
         /\ (InFlight(c) /\ calls[c].entry = "NewWithSize")
            => (calls[c].bufPointer # 0 <=> calls[c].size <= 128)
         /\ calls[c].pointer # 0 => calls[c].pointer # calls[c].bufPointer
         /\ calls[c].pc = "Read.return" => calls[c].pointer = 0
         /\ calls[c].pc = "done"
            => /\ Held(c) = {}
               /\ \A x \in calls[c].took :
                     \/ x \in bufSlicePool.free
                     \/ \E d \in CallIds \ {c} : x \in Held(d)

C9_Witness ==
    /\ calls[1].pc = "rander.Read" /\ calls[1].custom /\ calls[1].pointer = 1
    /\ calls[1].reads = 2
    /\ calls[2].pc = "rander.Read" /\ calls[2].entry = "NewWithSize"
    /\ calls[2].bufPointer = 2
    /\ bufSlicePool.made = 2

\* Call 1 has computed its random size for the reader in use.
SizeComputed == calls[1].pc # "idle" /\ calls[1].custom

\* C11 as stated: for every alphabet length 1..256 with its mask and every
\* size N >= 1, the random size the call computed is greater than 0 and is
\* at least N, and for the 64 symbol alphabet and N = 21 it is 34.
C11_RandomSizeAtLeastSize ==
    SizeComputed
    => /\ calls[1].scratch > 0
       /\ calls[1].scratch >= calls[1].len
       /\ (Len(reader.alphabet) = 64 /\ calls[1].len = 21) => calls[1].scratch = 34

\* C11 as amended: for every alphabet length 1..256 with its mask and every
\* size N >= 1, the random size the call computed is greater than 0; it is at
\* least N for every alphabet length but 2, where it is the ceiling of
\* 4 * N / 5 (at least N only for N up to 4); and for the 64 symbol
\* alphabet and N = 21 it is 34.
C11_RandomSizeAtLeastSizeButForTwo ==
    SizeComputed
    => /\ calls[1].scratch > 0
       /\ Len(reader.alphabet) # 2 => calls[1].scratch >= calls[1].len
       /\ Len(reader.alphabet) = 2
          => /\ calls[1].scratch = (4 * calls[1].len + 4) \div 5
             /\ (calls[1].scratch >= calls[1].len <=> calls[1].len <= 4)
       /\ (Len(reader.alphabet) = 64 /\ calls[1].len = 21) => calls[1].scratch = 34

C11_Witness ==
    /\ calls[1].pc = "rander.Read" /\ calls[1].custom
    /\ Len(reader.alphabet) = 64 /\ reader.mask = 63
    /\ calls[1].len = 21

====
